---- MODULE Spec2Model ----
\* A model of tri_list<T1, T2, T3> (src/tri_list.h): a vector of variants over
\* three types, one composed modifier per type, a lazy filtered view
\* (range_over) and a modifying iterator (begin / end).
EXTENDS Naturals, Sequences, FiniteSets

\* ---------------------------------------------------------------- bounds

\* Longest contents vector explored.
MaxLen == 2

\* Longest initializer list explored.
MaxInit == 1

\* Largest number of modifiers registered (over the three types) since the
\* last resets.
MaxMods == 2

\* ------------------------------------------------------ types and values

\* The types a tri_list may be instantiated with.
TripleTypes == {"int", "string", "double"}

\* The types a method template may be called with: those and a foreign one.
CandTypes == TripleTypes \cup {"float"}

\* The payloads of every type, abstracted to two values.
Val == {0, 1}

\* template <typename T1, typename T2, typename T3> class tri_list: every
\* instantiation of the class template (the template head states no
\* constraint).
Triples == [1..3 -> TripleTypes]

\* std::same_as<A, B>.
same_as(A, B) == A = B

\* concept my_type.
my_type(T, T1, T2, T3) == same_as(T, T1) \/ same_as(T, T2) \/ same_as(T, T3)

\* A faulty one_type: membership alone, as my_type.
one_type_any(T, T1, T2, T3) ==
  same_as(T, T1) \/ same_as(T, T2) \/ same_as(T, T3)

\* A faulty one_type: the first disjunct forgets to compare with T2.
one_type_slip(T, T1, T2, T3) ==
  \/ (same_as(T, T1) /\ ~same_as(T, T3))
  \/ (same_as(T, T3) /\ ~same_as(T, T2) /\ ~same_as(T, T1))
  \/ (same_as(T, T2) /\ ~same_as(T, T1) /\ ~same_as(T, T3))

\* concept one_type.
one_type(T, T1, T2, T3) ==
  \/ (same_as(T, T1) /\ ~same_as(T, T2) /\ ~same_as(T, T3))
  \/ (same_as(T, T3) /\ ~same_as(T, T2) /\ ~same_as(T, T1))
  \/ (same_as(T, T2) /\ ~same_as(T, T1) /\ ~same_as(T, T3))

\* The modifiers: functions T -> T, here tables over Val.
Fun == [Val -> Val]

\* A faulty compose: f1(f2(x)).
compose_swapped(f2, f1) == [x \in Val |-> f1[f2[x]]]

\* compose(f2, f1) applied on x evaluates to f2(f1(x)).
compose(f2, f1) == [x \in Val |-> f2[f1[x]]]

\* identity<T>.
identity == [x \in Val |-> x]

\* Two modifiers a caller may pass; they do not commute.
flip == [x \in Val |-> 1 - x]
zero == [x \in Val |-> 0]
Modifiers == {flip, zero}

\* var_t: a variant holding one active type and its value.
var_t(T, v) == [type |-> T, val |-> v]

VARIABLES
  triple,    \* the template arguments <<T1, T2, T3>> of this tri_list
  contents,  \* std::vector<var_t> contents
  mods,      \* std::tuple<mod_type<T1>, mod_type<T2>, mod_type<T3>> mods
  pipeline,  \* history: per type, the modifiers registered since its reset
  reader,    \* the one view iterator or tri_iterator in use
  yielded    \* what the operation just executed returned, if a variant

vars == <<triple, contents, mods, pipeline, reader, yielded>>

\* ------------------------------------------------------------ accessors

\* std::get<mod_type<T>>(mods) is well formed when mod_type<T> occurs exactly
\* once among the tuple's types, that is when T occurs once in the triple.
has_mod(T) == Cardinality({i \in 1..3 : triple[i] = T}) = 1

\* A faulty std::get: the first slot whatever the type.
slot_first(T) == CHOOSE i \in 1..3 : \A j \in 1..3 : i <= j

\* A faulty std::get: the second and the third type share a slot.
slot_shared(T) == IF triple[1] = T THEN 1 ELSE 2

\* The tuple slot std::get<mod_type<T>> selects.
slot(T) == CHOOSE i \in 1..3 : triple[i] = T

\* get_mod<T>(), both overloads: the type T's current modifier.
get_mod(T) == mods[slot(T)]

\* Assigning through the reference get_mod<T>() returns.
set_mod(T, f) == [mods EXCEPT ![slot(T)] = f]

\* What modify_only<T>(m) makes of a tuple ms of modifiers.
modified(ms, T, m) == [ms EXCEPT ![slot(T)] = compose(m, ms[slot(T)])]

\* What reset<T>() makes of a tuple ms of modifiers.
cleared(ms, T) == [ms EXCEPT ![slot(T)] = identity]

\* Number of modifiers registered since the last resets.
Registered ==
  Len(pipeline["int"]) + Len(pipeline["string"]) + Len(pipeline["double"])

\* ---------------------------------------------------------- the readers

NoElt == [type |-> "-", val |-> 0]

NoReader == [kind |-> "none", T |-> "-", pos |-> 0, snap |-> identity]

\* An iterator the vector no longer backs.
Invalid == [kind |-> "invalid", T |-> "-", pos |-> 0, snap |-> identity]

End == Len(contents) + 1

\* A faulty filter: it lets every element through.
next_any(T, p) == IF p <= Len(contents) THEN p ELSE End

\* std::views::filter: the first position from p on whose element holds a T,
\* or the end.
RECURSIVE next_match(_, _)
next_match(T, p) ==
  IF p >= End THEN End
  ELSE IF contents[p].type = T THEN p
  ELSE next_match(T, p + 1)

\* The view range_over<T>() returns, at its begin(). snap is history: T's
\* modifier at the time of the call.
view_begin(T) ==
  [kind |-> "range", T |-> T, pos |-> next_match(T, 1), snap |-> get_mod(T)]

\* A faulty capture: the modifier copied when range_over was called.
view_mod_snapshot(r) == r.snap

\* The transform's lambda captures this: it reads the modifier on each call.
view_mod(r) == get_mod(r.T)

\* A faulty transform: the stored value, no modifier applied.
view_deref_raw(r) == var_t(r.T, contents[r.pos].val)

\* std::views::transform: get_mod<T>()(std::get<T>(v)) on the element at pos.
view_deref(r) == var_t(r.T, view_mod(r)[contents[r.pos].val])

\* operator++ of the view's iterator: on to the next element holding a T.
view_next(r) == [r EXCEPT !.pos = next_match(r.T, r.pos + 1)]

\* A faulty operator*: the stored variant, no modifier applied.
iter_deref_raw(p) == contents[p]

\* tri_iterator::operator*: visit the element with its own type's modifier.
iter_deref(p) ==
  LET elt == contents[p]
  IN  var_t(elt.type, get_mod(elt.type)[elt.val])

\* The positions a traversal of the view visits, from reader r on.
RECURSIVE view_positions(_)
view_positions(r) ==
  IF r.pos >= End THEN <<>>
  ELSE <<r.pos>> \o view_positions(view_next(r))

\* The values a traversal of the view yields, from reader r on.
RECURSIVE view_values(_)
view_values(r) ==
  IF r.pos >= End THEN <<>>
  ELSE <<view_deref(r).val>> \o view_values(view_next(r))

\* range_over<T>() consumed from begin to end.
RangeOver(T) == view_values(view_begin(T))

\* The variants a traversal from position p to end() yields.
RECURSIVE iter_values(_)
iter_values(p) ==
  IF p >= End THEN <<>>
  ELSE <<iter_deref(p)>> \o iter_values(p + 1)

\* for (auto it = begin(); it != end(); ++it) *it.
Iterate == iter_values(1)

\* ------------------------------------------------------------------ Init

\* The elements an initializer_list<var_t> may hold.
Elements == {var_t(triple[i], v) : i \in 1..3, v \in Val}

\* All sequences over S of length at most n.
SeqUpTo(S, n) == UNION {[1..k -> S] : k \in 0..n}

\* A faulty constructor: the one taking an initializer list leaves the
\* modifiers something other than the identities.
Init_unset ==
  /\ triple \in Triples
  /\ contents \in SeqUpTo(Elements, MaxInit)
  /\ mods = [i \in 1..3 |-> IF contents = <<>> THEN identity ELSE zero]
  /\ pipeline = [T \in TripleTypes |-> <<>>]
  /\ reader = NoReader
  /\ yielded = NoElt

\* tri_list() and tri_list(std::initializer_list<var_t>); mods starts as
\* {identity<T1>, identity<T2>, identity<T3>}.
Init ==
  /\ triple \in Triples
  /\ contents \in SeqUpTo(Elements, MaxInit)
  /\ mods = [i \in 1..3 |-> identity]
  /\ pipeline = [T \in TripleTypes |-> <<>>]
  /\ reader = NoReader
  /\ yielded = NoElt

\* --------------------------------------------------------------- actions

\* What growing the vector does to an iterator in use: a past-the-end
\* iterator is invalidated always, any other one when the vector reallocates.
after_growth(r) ==
  IF r.kind = "none" THEN {r}
  ELSE IF r.kind \in {"range", "iter"} /\ r.pos < End THEN {r, Invalid}
  ELSE {Invalid}

\* A faulty push_back: the element goes in front.
push_front(T, t) ==
  /\ one_type(T, triple[1], triple[2], triple[3])
  /\ Len(contents) < MaxLen
  /\ contents' = <<var_t(T, t)>> \o contents
  /\ reader' \in after_growth(reader)
  /\ yielded' = NoElt
  /\ UNCHANGED <<triple, mods, pipeline>>

\* push_back<T>(t): contents.push_back(var_t(t)).
push_back(T, t) ==
  /\ one_type(T, triple[1], triple[2], triple[3])
  /\ Len(contents) < MaxLen
  /\ contents' = Append(contents, var_t(T, t))
  /\ reader' \in after_growth(reader)
  /\ yielded' = NoElt
  /\ UNCHANGED <<triple, mods, pipeline>>

\* A faulty modify_only: the new modifier takes the place of the old one.
modify_only_replace(T, m) ==
  /\ one_type(T, triple[1], triple[2], triple[3])
  /\ Registered < MaxMods
  /\ pipeline' = [pipeline EXCEPT ![T] = Append(@, m)]
  /\ mods' = set_mod(T, m)
  /\ yielded' = NoElt
  /\ UNCHANGED <<triple, contents, reader>>

\* A faulty modify_only: the modifier is applied to the stored values.
modify_only_in_place(T, m) ==
  /\ one_type(T, triple[1], triple[2], triple[3])
  /\ Registered < MaxMods
  /\ pipeline' = [pipeline EXCEPT ![T] = Append(@, m)]
  /\ contents' = [i \in 1..Len(contents) |->
                    IF contents[i].type = T
                    THEN var_t(T, m[contents[i].val])
                    ELSE contents[i]]
  /\ yielded' = NoElt
  /\ UNCHANGED <<triple, mods, reader>>

\* modify_only<T>(m): mod = compose<T>(m, mod).
modify_only(T, m) ==
  /\ one_type(T, triple[1], triple[2], triple[3])
  /\ Registered < MaxMods
  /\ pipeline' = [pipeline EXCEPT ![T] = Append(@, m)]
  /\ mods' = set_mod(T, compose(m, get_mod(T)))
  /\ yielded' = NoElt
  /\ UNCHANGED <<triple, contents, reader>>

\* A faulty reset: the assignment goes to a copy of the modifier.
reset_lost(T) ==
  /\ one_type(T, triple[1], triple[2], triple[3])
  /\ pipeline' = [pipeline EXCEPT ![T] = <<>>]
  /\ mods' = mods
  /\ yielded' = NoElt
  /\ UNCHANGED <<triple, contents, reader>>

\* A faulty reset: the whole tuple goes back to the identities.
reset_all(T) ==
  /\ one_type(T, triple[1], triple[2], triple[3])
  /\ pipeline' = [pipeline EXCEPT ![T] = <<>>]
  /\ mods' = [i \in 1..3 |-> identity]
  /\ yielded' = NoElt
  /\ UNCHANGED <<triple, contents, reader>>

\* reset<T>(): get_mod<T>() = identity<T>.
reset(T) ==
  /\ one_type(T, triple[1], triple[2], triple[3])
  /\ pipeline' = [pipeline EXCEPT ![T] = <<>>]
  /\ mods' = set_mod(T, identity)
  /\ yielded' = NoElt
  /\ UNCHANGED <<triple, contents, reader>>

\* The iterator in use goes out of scope.
drop ==
  /\ reader.kind # "none"
  /\ reader' = NoReader
  /\ yielded' = NoElt
  /\ UNCHANGED <<triple, contents, mods, pipeline>>

\* range_over<T>() and the begin() of the view it returns. One traversal is
\* followed at a time.
range_over(T) ==
  /\ one_type(T, triple[1], triple[2], triple[3])
  /\ reader.kind = "none"
  /\ reader' = view_begin(T)
  /\ yielded' = NoElt
  /\ UNCHANGED <<triple, contents, mods, pipeline>>

\* begin(): tri_iterator(contents.begin(), this).
begin ==
  /\ reader.kind = "none"
  /\ reader' = [kind |-> "iter", T |-> "-", pos |-> 1, snap |-> identity]
  /\ yielded' = NoElt
  /\ UNCHANGED <<triple, contents, mods, pipeline>>

\* A faulty dereference: the value computed is stored back in the element.
deref_view_write_back ==
  /\ reader.kind = "range"
  /\ reader.pos < End
  /\ yielded' = view_deref(reader)
  /\ contents' = [contents EXCEPT ![reader.pos] = view_deref(reader)]
  /\ UNCHANGED <<triple, mods, pipeline, reader>>

\* Dereferencing the view's iterator.
deref_view ==
  /\ reader.kind = "range"
  /\ reader.pos < End
  /\ yielded' = view_deref(reader)
  /\ UNCHANGED <<triple, contents, mods, pipeline, reader>>

\* tri_iterator::operator*. The visitor is instantiated for all three
\* alternatives, so get_mod must be well formed for each of them.
deref_iter ==
  /\ reader.kind = "iter"
  /\ reader.pos < End
  /\ \A i \in 1..3 : has_mod(triple[i])
  /\ yielded' = iter_deref(reader.pos)
  /\ UNCHANGED <<triple, contents, mods, pipeline, reader>>

\* Dereferencing an invalidated iterator: anything.
deref_invalid ==
  /\ reader.kind = "invalid"
  /\ \E T \in TripleTypes, v \in Val : yielded' = var_t(T, v)
  /\ UNCHANGED <<triple, contents, mods, pipeline, reader>>

\* operator++ of the view's iterator.
incr_view ==
  /\ reader.kind = "range"
  /\ reader.pos < End
  /\ reader' = view_next(reader)
  /\ yielded' = NoElt
  /\ UNCHANGED <<triple, contents, mods, pipeline>>

\* tri_iterator::operator++ (prefix and postfix).
incr_iter ==
  /\ reader.kind = "iter"
  /\ reader.pos < End
  /\ reader' = [reader EXCEPT !.pos = reader.pos + 1]
  /\ yielded' = NoElt
  /\ UNCHANGED <<triple, contents, mods, pipeline>>

\* tri_iterator::operator-- (prefix and postfix).
decr_iter ==
  /\ reader.kind = "iter"
  /\ reader.pos > 1
  /\ reader' = [reader EXCEPT !.pos = reader.pos - 1]
  /\ yielded' = NoElt
  /\ UNCHANGED <<triple, contents, mods, pipeline>>

\* The operations that change the collection.
Next ==
  \/ \E T \in CandTypes, t \in Val : push_back(T, t)
  \/ \E T \in CandTypes, m \in Modifiers : modify_only(T, m)
  \/ \E T \in CandTypes : reset(T)

\* Every instantiation, its operations, reads taken whole (the operators
\* RangeOver and Iterate).
Spec == Init /\ [][Next]_vars

\* One instantiation over three distinct types, with a traversal in steps.
InitView ==
  /\ Init
  /\ triple = <<"int", "string", "double">>

NextView ==
  \/ Next
  \/ \E T \in CandTypes : range_over(T)
  \/ begin
  \/ drop
  \/ deref_view
  \/ deref_iter
  \/ deref_invalid
  \/ incr_view
  \/ incr_iter
  \/ decr_iter

SpecView == InitView /\ [][NextView]_vars

\* ------------------------------------------------------------ properties

\* The number of times T occurs in the triple.
Occurrences(T) == Cardinality({i \in 1..3 : triple[i] = T})

\* The types of the triple that occur in it once.
Usable == {T \in TripleTypes : Occurrences(T) = 1}

\* The triple holds three different types.
Distinct == \A i, j \in 1..3 : i # j => triple[i] # triple[j]

\* The stored elements holding a T, in the order of the vector.
StoredOf(T) == SelectSeq(contents, LAMBDA e : e.type = T)

\* The positions of the stored elements holding a T.
PositionsOf(T) == {i \in 1..Len(contents) : contents[i].type = T}

\* fn(...f2(f1(x))...) for fs = <<f1, f2, ..., fn>>.
RECURSIVE ApplyAll(_, _)
ApplyAll(fs, x) ==
  IF fs = <<>> THEN x ELSE ApplyAll(Tail(fs), Head(fs)[x])

\* C1: a read of the T-typed elements, through range_over<T>() or through
\* whole-collection iteration, yields for each stored x the modifiers
\* registered for T since its last reset applied in registration order,
\* fn(...f2(f1(x))...); with none registered it yields x.
C1_CompositionOrder ==
  /\ \A T \in Usable :
       LET st == StoredOf(T)
       IN  RangeOver(T) =
             [k \in 1..Len(st) |-> ApplyAll(pipeline[T], st[k].val)]
  /\ Distinct =>
       LET it == Iterate
       IN  /\ Len(it) = Len(contents)
           /\ \A i \in 1..Len(contents) :
                it[i].val =
                  ApplyAll(pipeline[contents[i].type], contents[i].val)

\* Two different modifiers registered on T and a stored T on which their
\* order shows in the value read.
C1_Witness ==
  \E T \in Usable :
    /\ Len(pipeline[T]) = 2
    /\ StoredOf(T) # <<>>
    /\ LET x  == StoredOf(T)[1].val
           f1 == pipeline[T][1]
           f2 == pipeline[T][2]
       IN  /\ f2[f1[x]] # f1[f2[x]]
           /\ RangeOver(T)[1] = f2[f1[x]]

\* Reads of the T-typed elements return the stored values.
ReadsOriginal(T) ==
  /\ LET st == StoredOf(T)
     IN  RangeOver(T) = [k \in 1..Len(st) |-> st[k].val]
  /\ Distinct =>
       LET it == Iterate
       IN  \A i \in PositionsOf(T) : it[i] = contents[i]

\* A read of a T-typed element returns its value, whatever the value.
ReadsAnyOriginal(T) == \A x \in Val : get_mod(T)[x] = x

\* C2: reset<T>() makes a read of a T-typed element return its stored value,
\* every step but a modify_only<T> keeps it so, and while it is so
\* range_over<T>() and whole-collection iteration return the stored values of
\* the T-typed elements.
C2_ResetRestores ==
  /\ [](\A T \in Usable : ReadsAnyOriginal(T) => ReadsOriginal(T))
  /\ [][\A T \in Usable :
          (\/ reset(T)
           \/ ReadsAnyOriginal(T) /\ ~(\E m \in Modifiers : modify_only(T, m)))
            => ReadsAnyOriginal(T)']_vars

\* T's history is empty, as reset<T>() leaves it, while another type's is
\* not: the stored T reads as stored, the stored element of the other type
\* reads changed.
C2_Witness ==
  \E T \in Usable, U \in Usable :
    /\ T # U
    /\ pipeline[T] = <<>>
    /\ pipeline[U] # <<>>
    /\ StoredOf(T) # <<>>
    /\ StoredOf(U) # <<>>
    /\ RangeOver(T)[1] = StoredOf(T)[1].val
    /\ RangeOver(U)[1] # StoredOf(U)[1].val

\* C3: range_over<T>() visits exactly the stored elements holding a T, each
\* once and in the order of insertion, visits no element of another type,
\* and yields each one's value passed through T's current modifier.
C3_TypeIsolation ==
  \A T \in Usable :
    LET ps == view_positions(view_begin(T))
        vs == RangeOver(T)
        st == StoredOf(T)
    IN  /\ {ps[k] : k \in 1..Len(ps)} = PositionsOf(T)
        /\ \A j, k \in 1..Len(ps) : j < k => ps[j] < ps[k]
        /\ Len(vs) = Len(ps)
        /\ Len(vs) = Len(st)
        /\ \A k \in 1..Len(vs) : vs[k] = get_mod(T)[st[k].val]

\* An element of another type stored before a T, and the T read modified.
C3_Witness ==
  \E T \in Usable :
    /\ Len(contents) = 2
    /\ contents[1].type # T
    /\ contents[2].type = T
    /\ get_mod(T) # identity
    /\ RangeOver(T) = <<get_mod(T)[contents[2].val]>>
    /\ RangeOver(T)[1] # contents[2].val

\* C4: whole-collection iteration yields one variant per stored element, in
\* the order of the vector and with the stored element's active type, and
\* push_back<T> adds its element behind all the ones iterated before, which
\* stay as they were.
C4_OrderPreservation ==
  /\ [](Distinct =>
          LET it == Iterate
          IN  /\ Len(it) = Len(contents)
              /\ \A i \in 1..Len(contents) : it[i].type = contents[i].type)
  /\ [][\A T \in CandTypes, t \in Val :
          (Distinct /\ push_back(T, t)) =>
            LET before == Iterate
                after  == Iterate'
            IN  /\ Len(after) = Len(before) + 1
                /\ SubSeq(after, 1, Len(before)) = before
                /\ after[Len(after)] = var_t(T, ApplyAll(pipeline[T], t))]_vars

\* Two different elements of different types, iterated in the order stored.
C4_Witness ==
  /\ Distinct
  /\ Len(contents) = 2
  /\ contents[1].type # contents[2].type
  /\ Iterate[1].type = contents[1].type
  /\ Iterate[2].type = contents[2].type
  /\ Iterate[1].val # Iterate[2].val

\* C5: modify_only<T>(m) makes every stored T read as m of what it read
\* before the call, and a T inserted after the calls reads through all the
\* modifiers registered before its insertion.
C5_LateBinding ==
  [][/\ \A T \in Usable, m \in Modifiers :
          modify_only(T, m) =>
            LET before == RangeOver(T)
                after  == RangeOver(T)'
            IN  /\ after = [k \in 1..Len(before) |-> m[before[k]]]
                /\ Len(after) = Len(StoredOf(T))
                /\ Distinct =>
                     LET itb == Iterate
                         ita == Iterate'
                     IN  \A i \in PositionsOf(T) : ita[i].val = m[itb[i].val]
     /\ \A T \in Usable, t \in Val :
          push_back(T, t) =>
            /\ RangeOver(T)' = Append(RangeOver(T), ApplyAll(pipeline[T], t))
            /\ Distinct => Iterate'[Len(contents')].val = ApplyAll(pipeline[T], t)]_vars

\* A stored T that reads as the modifier of its stored value, not as stored.
C5_Witness ==
  \E T \in Usable :
    /\ Len(pipeline[T]) = 1
    /\ StoredOf(T) # <<>>
    /\ RangeOver(T)[1] = pipeline[T][1][StoredOf(T)[1].val]
    /\ RangeOver(T)[1] # StoredOf(T)[1].val

\* C6: modify_only<A> changes no value read for an element of another type
\* B, through range_over<B>() or through whole-collection iteration.
C6_CrossTypeNonInterference ==
  [][\A A \in Usable, m \in Modifiers :
       modify_only(A, m) =>
         /\ \A B \in Usable \ {A} : RangeOver(B)' = RangeOver(B)
         /\ Distinct =>
              LET itb == Iterate
                  ita == Iterate'
              IN  \A i \in 1..Len(contents) :
                    contents[i].type # A => ita[i] = itb[i]]_vars

\* A modified and read changed, B stored, unmodified and read as stored.
C6_Witness ==
  \E A \in Usable, B \in Usable :
    /\ A # B
    /\ pipeline[A] # <<>>
    /\ pipeline[B] = <<>>
    /\ StoredOf(A) # <<>>
    /\ StoredOf(B) # <<>>
    /\ RangeOver(A)[1] # StoredOf(A)[1].val
    /\ RangeOver(B) = [k \in 1..Len(StoredOf(B)) |-> StoredOf(B)[k].val]
    /\ Distinct
    /\ \A i \in PositionsOf(B) : Iterate[i] = contents[i]

\* C7: dereferencing the iterator of a range_over<T>() view yields the
\* element's value under the modifiers registered for T at that moment (after
\* any modify_only<T> or reset<T> made since the view was obtained), not
\* under T's modifier as it stood when range_over was called.
C7_PullTimeModifier ==
  [][deref_view =>
       yielded' =
         var_t(reader.T,
               ApplyAll(pipeline[reader.T], contents[reader.pos].val))]_vars

\* A view that has just yielded an element under the modifiers registered
\* now, which is not what T's modifier at the time of the call gives.
C7_Witness ==
  /\ reader.kind = "range"
  /\ reader.pos < End
  /\ yielded # NoElt
  /\ LET x == contents[reader.pos].val
     IN  /\ yielded.val = ApplyAll(pipeline[reader.T], x)
         /\ yielded.val # reader.snap[x]

\* Some value can still be pushed, some modifier still registered, within
\* the bounds explored.
Room == Len(contents) < MaxLen /\ Registered < MaxMods

\* C8: one_type holds of T and the triple exactly when T occurs once in the
\* triple (not when it occurs in none of the places, in two or in three), and
\* push_back, range_over, modify_only and reset are possible for exactly
\* those T.
C8_OneType ==
  /\ [](\A T \in CandTypes :
          /\ one_type(T, triple[1], triple[2], triple[3])
               <=> Occurrences(T) = 1
          /\ (ENABLED reset(T)) <=> Occurrences(T) = 1
          /\ (ENABLED range_over(T)) <=> Occurrences(T) = 1
          /\ Room =>
               /\ (ENABLED (\E t \in Val : push_back(T, t)))
                    <=> Occurrences(T) = 1
               /\ (ENABLED (\E m \in Modifiers : modify_only(T, m)))
                    <=> Occurrences(T) = 1)
  /\ [][\A T \in CandTypes :
          (\/ \E t \in Val : push_back(T, t)
           \/ \E m \in Modifiers : modify_only(T, m)
           \/ reset(T))
            => Occurrences(T) = 1]_vars

\* A triple with a type in two places: a candidate in none of the places and
\* the one in two are refused, the one occurring once has been pushed and
\* modified.
C8_Witness ==
  \E T0 \in CandTypes, T1 \in CandTypes, T2 \in CandTypes :
    /\ Occurrences(T0) = 0 /\ ~one_type(T0, triple[1], triple[2], triple[3])
    /\ Occurrences(T2) = 2 /\ ~one_type(T2, triple[1], triple[2], triple[3])
    /\ Occurrences(T1) = 1 /\ one_type(T1, triple[1], triple[2], triple[3])
    /\ Len(StoredOf(T1)) = 2
    /\ pipeline[T1] # <<>>

\* C9 as stated: every tri_list that exists has three pairwise distinct
\* types.
C9_DistinctTriplesOnly == Distinct

\* C9 amended: a tri_list over a triple with a repeated type can be
\* constructed, but no push_back, range_over, modify_only or reset can name
\* the repeated type: its modifier stays the identity, nothing is registered
\* for it and its stored elements stay those of the initial list.
C9_RepeatedTypeUnusable ==
  /\ [](\A i \in 1..3 :
          Occurrences(triple[i]) > 1 =>
            /\ mods[i] = identity
            /\ pipeline[triple[i]] = <<>>
            /\ Len(StoredOf(triple[i])) <= MaxInit
            /\ ~ENABLED reset(triple[i])
            /\ ~ENABLED range_over(triple[i])
            /\ ~ENABLED (\E t \in Val : push_back(triple[i], t))
            /\ ~ENABLED (\E m \in Modifiers : modify_only(triple[i], m)))
  /\ [][\A T \in TripleTypes :
          Occurrences(T) > 1 => StoredOf(T)' = StoredOf(T)]_vars

\* A tri_list whose triple repeats a type, holding an element of that type
\* from its initial list and a pushed, modified element of the other type.
C9_Witness ==
  \E D \in TripleTypes, T \in TripleTypes :
    /\ Occurrences(D) = 2
    /\ Occurrences(T) = 1
    /\ Len(contents) = 2
    /\ contents[1].type = D
    /\ contents[2].type = T
    /\ pipeline[T] # <<>>
    /\ RangeOver(T)[1] # contents[2].val

\* C10: for every type T, the variants of active type T that whole-collection
\* iteration yields are, in order, the values range_over<T>() yields.
C10_IterationInterleavesRanges ==
  Distinct =>
    \A T \in TripleTypes :
      LET ofT == SelectSeq(Iterate, LAMBDA e : e.type = T)
      IN  /\ Len(ofT) = Len(RangeOver(T))
          /\ \A k \in 1..Len(ofT) : ofT[k].val = RangeOver(T)[k]

\* Elements of two types, both modified to read differently from what is
\* stored, each iterated as its range yields it.
C10_Witness ==
  /\ Distinct
  /\ Len(contents) = 2
  /\ contents[1].type # contents[2].type
  /\ \A i \in 1..2 :
       /\ Iterate[i].val # contents[i].val
       /\ RangeOver(contents[i].type) = <<Iterate[i].val>>

\* C11: for distinct types A and B of the triple, reset<A>() changes no value
\* read for a B-typed element, through range_over<B>() or through
\* whole-collection iteration, and after it those values are still the ones
\* all the modifiers registered for B since B's last reset give.
C11_ResetFrame ==
  [][\A A \in Usable :
       reset(A) =>
         /\ \A B \in Usable \ {A} :
              LET st    == StoredOf(B)
                  after == RangeOver(B)'
              IN  /\ after = RangeOver(B)
                  /\ pipeline'[B] = pipeline[B]
                  /\ after =
                       [k \in 1..Len(st) |-> ApplyAll(pipeline[B], st[k].val)]
         /\ Distinct =>
              LET itb == Iterate
                  ita == Iterate'
              IN  \A i \in 1..Len(contents) :
                    contents[i].type # A =>
                      /\ ita[i] = itb[i]
                      /\ ita[i].val =
                           ApplyAll(pipeline[contents[i].type],
                                    contents[i].val)]_vars

\* Nothing registered for A, as reset<A>() leaves it, and two modifiers
\* registered for B: the stored A reads as stored, the stored B reads as the
\* second modifier of the first of its stored value, which is not that value.
C11_Witness ==
  \E A \in Usable, B \in Usable :
    /\ A # B
    /\ pipeline[A] = <<>>
    /\ Len(pipeline[B]) = 2
    /\ StoredOf(A) # <<>>
    /\ StoredOf(B) # <<>>
    /\ RangeOver(A)[1] = StoredOf(A)[1].val
    /\ LET x == StoredOf(B)[1].val
       IN  /\ RangeOver(B)[1] = pipeline[B][2][pipeline[B][1][x]]
           /\ RangeOver(B)[1] # x

ReadStep ==
  CASE reader.kind = "none"  -> begin \/ \E T \in CandTypes : range_over(T)
    [] reader.kind = "range" -> deref_view \/ incr_view \/ drop
    [] reader.kind = "iter"  -> deref_iter \/ incr_iter \/ decr_iter \/ drop
    [] OTHER                 -> drop

\* C13: no step of a read (of a range_over<T>() view or of a whole-collection
\* traversal, wherever it stops) changes the stored variants or any of the
\* three modifiers, and what a dereference yields is the element of that
\* position in the whole sequence the read gives in the current state: a read
\* repeated with no push_back, modify_only or reset in between yields the
\* same sequence.
C13_ReadsPure ==
  [][/\ (contents' # contents \/ mods' # mods \/ pipeline' # pipeline)
          => ~ReadStep
     /\ deref_view =>
          LET ps == view_positions(view_begin(reader.T))
              k  == CHOOSE j \in 1..Len(ps) : ps[j] = reader.pos
          IN  /\ \E j \in 1..Len(ps) : ps[j] = reader.pos
              /\ yielded' = var_t(reader.T, RangeOver(reader.T)[k])
     /\ deref_iter => yielded' = Iterate[reader.pos]]_vars

\* A view part of the way through its elements that has just yielded the
\* second one, read as a value other than the stored one, which is still
\* stored.
C13_Witness ==
  /\ reader.kind = "range"
  /\ reader.pos = 2
  /\ Len(StoredOf(reader.T)) = 2
  /\ yielded = var_t(reader.T, RangeOver(reader.T)[2])
  /\ yielded.val # contents[2].val

\* The lazy strategy: the list of modifiers registered for T, folded from
\* the first to the last when a value is read.
lazy_mod(T) == [x \in Val |-> ApplyAll(pipeline[T], x)]

\* range_over<T>() under the lazy strategy.
LazyRangeOver(T) ==
  LET st == StoredOf(T)
      f  == lazy_mod(T)
  IN  [k \in 1..Len(st) |-> f[st[k].val]]

\* Whole-collection iteration under the lazy strategy.
LazyIterate ==
  [i \in 1..Len(contents) |->
     var_t(contents[i].type, lazy_mod(contents[i].type)[contents[i].val])]

\* C14: after any sequence of push_back, modify_only and reset calls, the
\* one composed function kept per type (compose(m, mod) on modify_only,
\* identity on reset) maps every value as the list of the modifiers
\* registered for the type (appended on modify_only, emptied on reset) folded
\* from first to last does, so range_over<T>() and whole-collection iteration
\* yield the same under both strategies.
C14_EagerEqualsLazy ==
  /\ \A T \in Usable :
       /\ get_mod(T) = lazy_mod(T)
       /\ RangeOver(T) = LazyRangeOver(T)
  /\ Distinct => Iterate = LazyIterate

\* Two modifiers registered for T whose fold differs from the second one
\* alone on the stored value, read as the fold gives it.
C14_Witness ==
  \E T \in Usable :
    /\ Len(pipeline[T]) = 2
    /\ StoredOf(T) # <<>>
    /\ get_mod(T) # pipeline[T][2]
    /\ LET x == StoredOf(T)[1].val
       IN  /\ lazy_mod(T)[x] # pipeline[T][2][x]
           /\ RangeOver(T)[1] = lazy_mod(T)[x]

\* Reads return the stored elements as stored and in the order stored.
ReadsAsStored ==
  /\ \A T \in Usable :
       LET st == StoredOf(T)
       IN  RangeOver(T) = [k \in 1..Len(st) |-> st[k].val]
  /\ Distinct => Iterate = contents

\* C15: a tri_list just constructed, empty or from an initializer list, has
\* the identity as each of its three modifiers and reads its initial list as
\* given (nothing when empty); as long as no modifier is registered reads
\* return the stored elements as stored; and every step keeps the elements
\* stored so far in front, a push_back putting its element behind them.
C15_FreshIdentity ==
  /\ \A i \in 1..3 : mods[i] = identity
  /\ ReadsAsStored
  /\ []((\A T \in TripleTypes : pipeline[T] = <<>>) => ReadsAsStored)
  /\ [][/\ Len(contents') >= Len(contents)
       /\ SubSeq(contents', 1, Len(contents)) = contents
       /\ \A T \in CandTypes, t \in Val :
            (push_back(T, t) /\ \A U \in TripleTypes : pipeline[U] = <<>>) =>
              /\ RangeOver(T)' = Append(RangeOver(T), t)
              /\ Distinct => Iterate' = Append(Iterate, var_t(T, t))]_vars

\* No modifier registered, more elements stored than an initial list of the
\* size explored holds, so the last one pushed: all read as stored, the
\* pushed one last.
C15_Witness ==
  /\ Distinct
  /\ \A i \in 1..3 : mods[i] = identity
  /\ \A T \in TripleTypes : pipeline[T] = <<>>
  /\ Len(contents) = MaxInit + 1
  /\ Iterate = contents
  /\ RangeOver(contents[Len(contents)].type)
       = [k \in 1..Len(StoredOf(contents[Len(contents)].type)) |->
            StoredOf(contents[Len(contents)].type)[k].val]

\* The calls that change T's modifier: modify_only<T>(m) and reset<T>().
PipelineOps(T) ==
  {[op |-> "modify_only", T |-> T, m |-> m] : m \in Modifiers}
    \cup {[op |-> "reset", T |-> T, m |-> identity]}

\* The tuple of modifiers after the call o on the tuple ms.
after_op(ms, o) ==
  IF o.op = "reset" THEN cleared(ms, o.T) ELSE modified(ms, o.T, o.m)

\* The stored element e read through the tuple ms of modifiers.
read_through(ms, e) == var_t(e.type, ms[slot(e.type)][e.val])

\* C16: for distinct types A and B of the triple, a call that changes A's
\* modifier (modify_only<A>(f) or reset<A>()) and one that changes B's
\* (modify_only<B>(g) or reset<B>()), made in either order from the same
\* state, leave the same three modifiers (as tables: every value of every
\* type maps the same), under which every stored element reads the same.
C16_PipelineOpsCommute ==
  /\ [](\A i \in 1..3, j \in 1..3 :
          (i < j /\ has_mod(triple[i]) /\ has_mod(triple[j])) =>
            \A a \in PipelineOps(triple[i]), b \in PipelineOps(triple[j]) :
              \A ab \in {after_op(after_op(mods, a), b)},
                 ba \in {after_op(after_op(mods, b), a)} :
                /\ ab = ba
                /\ \A k \in 1..Len(contents) :
                     has_mod(contents[k].type) =>
                       read_through(ab, contents[k])
                         = read_through(ba, contents[k]))
  /\ [][/\ \A T \in Usable, m \in Modifiers :
            modify_only(T, m) =>
              /\ mods' = modified(mods, T, m)
              /\ contents' = contents
       /\ \A T \in Usable :
            reset(T) => (mods' = cleared(mods, T) /\ contents' = contents)]_vars

\* One modifier registered for A and one for B, in whichever order: the
\* modifiers are what both orders give, and a stored A and a stored B both
\* read changed.
C16_Witness ==
  \E A \in Usable, B \in Usable :
    /\ A # B
    /\ Len(pipeline[A]) = 1
    /\ Len(pipeline[B]) = 1
    /\ LET fresh == [i \in 1..3 |-> identity]
           f     == pipeline[A][1]
           g     == pipeline[B][1]
       IN  /\ mods = modified(modified(fresh, A, f), B, g)
           /\ mods = modified(modified(fresh, B, g), A, f)
    /\ StoredOf(A) # <<>>
    /\ StoredOf(B) # <<>>
    /\ read_through(mods, StoredOf(A)[1]) # StoredOf(A)[1]
    /\ read_through(mods, StoredOf(B)[1]) # StoredOf(B)[1]

====
